---- MODULE Spec2Model ----
(***************************************************************************)
(* Model of spotifyservice/server.go: the Server's construction and start, *)
(* and its /auth, /auth/callback and /logout/{provider} handlers, together *)
(* with the browsers (cookie jars) that send the requests and the provider *)
(* that answers the token exchange, profile and saved-tracks calls.        *)
(***************************************************************************)
EXTENDS Integers, Sequences, FiniteSets, TLC

\* ------------------------------------------------------------------ bounds
\* Number of random bytes of a state in the model (server.go:38 reads 32).
RandLen == 1

\* ------------------------------------------------------- program constants
stateCookieName == "oauthState"
StatusTemporaryRedirect == 307
StatusUnauthorized == 401
StatusBadRequest == 400

\* ------------------------------------------------------------- input sets
Browsers == {"b1", "b2"}
\* byte values the random source is sampled at: 0 -> 'A', 251 -> '+', 255 -> '/'
ByteSamples == {0, 251, 255}
ErrorParams == {"", "access_denied"}
Codes == {"", "XYZ"}
ProviderErrors == {"invalid_grant", "timeout"}
LogoutProviders == {"spotify", "other"}
Calls == {"exchange", "profile", "tracks"}

\* ------------------------------------------------ strings as char sequences
RECURSIVE Flatten(_)
Flatten(ss) == IF ss = <<>> THEN <<>> ELSE Head(ss) \o Flatten(Tail(ss))

\* encoding/base64 StdEncoding: the standard alphabet, '=' padding
encodeStd ==
  << "A","B","C","D","E","F","G","H","I","J","K","L","M","N","O","P",
     "Q","R","S","T","U","V","W","X","Y","Z","a","b","c","d","e","f",
     "g","h","i","j","k","l","m","n","o","p","q","r","s","t","u","v",
     "w","x","y","z","0","1","2","3","4","5","6","7","8","9","+","/" >>

\* the 6-bit group of the 24-bit quantum v at divisor k, as a character
sextet(v, k) == encodeStd[((v \div k) % 64) + 1]

RECURSIVE EncodeToString(_)
EncodeToString(bytes) ==
  IF Len(bytes) = 0 THEN <<>>
  ELSE IF Len(bytes) = 1 THEN
    LET v == bytes[1] * 65536
    IN << sextet(v, 262144), sextet(v, 4096), "=", "=" >>
  ELSE IF Len(bytes) = 2 THEN
    LET v == bytes[1] * 65536 + bytes[2] * 256
    IN << sextet(v, 262144), sextet(v, 4096),
          sextet(v, 64), "=" >>
  ELSE
    LET v == bytes[1] * 65536 + bytes[2] * 256 + bytes[3]
    IN << sextet(v, 262144), sextet(v, 4096),
          sextet(v, 64), sextet(v, 1) >>
       \o EncodeToString(SubSeq(bytes, 4, Len(bytes)))

\* genRandState: RandLen random bytes, base64 StdEncoding
RandBytes == [1..RandLen -> ByteSamples]
genRandState(bytes) == EncodeToString(bytes)
States == { genRandState(bs) : bs \in RandBytes }

\* net/url QueryEscape as url.Values.Encode applies it inside AuthCodeURL:
\* letters and digits stay, ' ' becomes '+', anything else becomes %XX
escapeChar(c) ==
  CASE c = "+" -> << "%", "2", "B" >>
    [] c = "/" -> << "%", "2", "F" >>
    [] c = "=" -> << "%", "3", "D" >>
    [] c = " " -> << "+" >>
    [] OTHER   -> << c >>

QueryEscape(s) == Flatten([i \in 1..Len(s) |-> escapeChar(s[i])])

\* net/url QueryUnescape as Request.FormValue applies it to the raw query:
\* '+' becomes ' ', %XX becomes the byte XX
unhex(h1, h2) ==
  CASE h1 = "2" /\ h2 = "B" -> "+"
    [] h1 = "2" /\ h2 = "F" -> "/"
    [] h1 = "3" /\ h2 = "D" -> "="
    [] OTHER -> "?"

RECURSIVE QueryUnescape(_)
QueryUnescape(s) ==
  IF s = <<>> THEN <<>>
  ELSE IF Head(s) = "%" /\ Len(s) >= 3
       THEN << unhex(s[2], s[3]) >> \o QueryUnescape(SubSeq(s, 4, Len(s)))
  ELSE IF Head(s) = "+" THEN << " " >> \o QueryUnescape(Tail(s))
  ELSE << Head(s) >> \o QueryUnescape(Tail(s))


\* ------------------------------------------------------------- data values
\* a cookie as the request carries it or the response sets it
NoCookie == [present |-> FALSE, name |-> "", value |-> <<>>]

\* internal.NewCookie(name, value): a cookie of that name carrying the value
NewCookie(name, value) == [present |-> TRUE, name |-> name, value |-> value]

\* net/http sanitizeCookieValue, applied by http.SetCookie: bytes that are not
\* valid in a cookie value are dropped
validCookieValueByte(c) == c \notin {"\"", ";", "\\"}
sanitizeCookieValue(v) == SelectSeq(v, validCookieValueByte)

\* URLs: the path or endpoint and the query parameters AuthCodeURL sets
NoURL == [base |-> "", response_type |-> "", client_id |-> "", redirect_uri |-> "", state |-> <<>>]
Home  == [base |-> "/", response_type |-> "", client_id |-> "", redirect_uri |-> "", state |-> <<>>]
AuthEndpoint == "https://accounts.spotify.com/authorize"

\* mutant of AuthCodeURL: the state is put into the URL without escaping
AuthCodeURL_unescaped(client, state) ==
  [base |-> AuthEndpoint, response_type |-> "code", client_id |-> client.clientID,
   redirect_uri |-> client.redirectURL, state |-> state]

\* oauth2.Config.AuthCodeURL(state): endpoint + url.Values{response_type,
\* client_id, redirect_uri, state}.Encode()
AuthCodeURL(client, state) ==
  [base |-> AuthEndpoint, response_type |-> "code", client_id |-> client.clientID,
   redirect_uri |-> client.redirectURL, state |-> QueryEscape(state)]

\* ------------------------------------------------------ http.ResponseWriter
\* status = 0: the handler has not written the header
NewResponse == [status |-> 0, location |-> NoURL, cookie |-> NoCookie,
                body |-> <<>>, writeHeaderCalls |-> 0]

\* Header().Set("Location", url): headers set after WriteHeader are not sent
SetLocation(w, url) == IF w.status = 0 THEN [w EXCEPT !.location = url] ELSE w

\* http.SetCookie(w, cookie)
SetCookie(w, c) ==
  IF w.status = 0 THEN [w EXCEPT !.cookie = [c EXCEPT !.value = sanitizeCookieValue(c.value)]]
  ELSE w

\* WriteHeader(code): the first call decides the status, later calls are superfluous
WriteHeader(w, code) ==
  [w EXCEPT !.status = IF w.status = 0 THEN code ELSE w.status,
            !.writeHeaderCalls = @ + 1]

\* Write(chunk): an implicit WriteHeader(200) when the header is not yet written
Write(w, chunk) ==
  [w EXCEPT !.status = IF w.status = 0 THEN 200 ELSE w.status,
            !.body = Append(@, chunk)]

RedirectBody == "<a href>"
\* http.Redirect(w, r, url, code) for a GET request
Redirect(w, url, code) == Write(WriteHeader(SetLocation(w, url), code), RedirectBody)

\* http.Error(w, msg, code)
Error(w, msg, code) == Write(WriteHeader(w, code), msg)


\* ------------------------------------------------------------------- state
VARIABLES
  env,      \* what the process finds: the config file and whether the port is free
  proc,     \* the process: "new", "constructed", "serving", "exited" or "panicked"
  server,   \* the Server's cfg and client fields
  jar,      \* per browser: the oauthState cookie it stores
  consent,  \* per browser: the state parameter of the consent URL it was last sent to
  old,      \* per browser: the state of one earlier /auth of that browser
  used,     \* per browser: a callback with the stored cookie has reached the exchange
  req       \* per browser: the request it has in flight and the handler's progress

vars == << env, proc, server, jar, consent, old, used, req >>

\* env.TomlConfig and spotifyapi.Client as the Server holds them
NilCfg == [loaded |-> FALSE, port |-> "", providers |-> {}]
NilClient == [set |-> FALSE, clientID |-> "", clientSecret |-> "", redirectURL |-> ""]
\* what env.LoadTOMLFile finds: no readable file, a file without a "spotify"
\* provider entry, a complete file
ConfigFiles == {"unreadable", "no_spotify", "complete"}
LoadTOMLFile(file) ==
  [loaded |-> file # "unreadable", port |-> "8080",
   providers |-> IF file = "complete" THEN {"spotify"} ELSE {}]
NewClient(id, secret, redirect) ==
  [set |-> TRUE, clientID |-> id, clientSecret |-> secret, redirectURL |-> redirect]

\* ---------------------------------------------------------------- requests
NoRequest ==
  [kind |-> "none", cookie |-> NoCookie, cookieSrc |-> "jar", error |-> "",
   rawState |-> <<>>, code |-> "", provider |-> "", hstate |-> "none", hist |-> <<>>,
   inflight |-> {}, calls |-> [c \in Calls |-> 0], results |-> [c \in Calls |-> ""],
   params |-> <<>>, w |-> NewResponse, finished |-> FALSE]

\* mutant of Cookie: the pending state is looked up in one slot shared by all
\* browsers instead of in the request
Cookie_shared(r, name) ==
  LET holders == { b \in Browsers : jar[b].present /\ jar[b].name = name } IN
  IF holders = {} THEN [err |-> "http: named cookie not present", cookie |-> NoCookie]
  ELSE [err |-> "", cookie |-> jar[CHOOSE b \in holders : TRUE]]

\* mutant of Cookie: the error of Request.Cookie is dropped, a missing cookie
\* reads as a cookie with an empty value
Cookie_errorIgnored(r, name) == [err |-> "", cookie |-> r.cookie]

\* Request.Cookie(name): the named cookie, or ErrNoCookie
ErrNoCookie == "http: named cookie not present"
Cookie(r, name) ==
  IF r.cookie.present /\ r.cookie.name = name
  THEN [err |-> "", cookie |-> r.cookie]
  ELSE [err |-> ErrNoCookie, cookie |-> NoCookie]

\* Request.FormValue("state"): the query parameter, unescaped
FormValueState(r) == QueryUnescape(r.rawState)

\* the handler's position in the callback state machine
Enter(r, st) == [r EXCEPT !.hstate = st, !.hist = Append(@, st)]
\* the handler returns
Return(r) == [r EXCEPT !.finished = TRUE]
\* a call to the provider is issued / has returned res ("ok" or an error message)
StartCall(r, call) == [r EXCEPT !.inflight = @ \cup {call}, !.calls[call] = @ + 1]
EndCall(r, call, res) == [r EXCEPT !.inflight = @ \ {call}, !.results[call] = res]

\* mutant of ServeAuth: a cookie the request already carries is kept
ServeAuth_keepCookie(s, r, bytes) ==
  LET localState == genRandState(bytes)
      w1 == IF r.cookie.present THEN r.w
            ELSE SetCookie(r.w, NewCookie(stateCookieName, localState))
      authURL == AuthCodeURL(s.client, localState)
  IN Return([r EXCEPT !.w = Redirect(w1, authURL, StatusTemporaryRedirect)])

\* mutant of ServeAuth: the state is generated a second time for the URL
ServeAuth_twoStates(s, r, bytes) ==
  LET w1 == SetCookie(r.w, NewCookie(stateCookieName, genRandState(bytes)))
      authURL == AuthCodeURL(s.client, genRandState([i \in 1..RandLen |-> 0]))
  IN Return([r EXCEPT !.w = Redirect(w1, authURL, StatusTemporaryRedirect)])

\* ---------------------------------------------------------- GET /auth
ServeAuth(s, r, bytes) ==
  LET localState == genRandState(bytes)
      w1 == SetCookie(r.w, NewCookie(stateCookieName, localState))
      authURL == AuthCodeURL(s.client, localState)
  IN Return([r EXCEPT !.w = Redirect(w1, authURL, StatusTemporaryRedirect)])

\* ------------------------------------------------- GET /auth/callback
\* lines 160-167: reading the cookie failed
CookieError(r, err) ==
  LET w1 == IF err = ErrNoCookie THEN Redirect(r.w, Home, StatusUnauthorized) ELSE r.w
  IN Return(Enter([r EXCEPT !.w = Error(w1, err, StatusBadRequest)], "StateMissing"))

\* mutant of StateMatches: the comparison is inverted
StateMatches_inverted(q, c) == q # c

\* line 169: the comparison of the query state with the cookie value
StateMatches(q, c) == q = c

\* mutant of StateMismatch: the http.Error of line 171 instead of the redirect
StateMismatch_error(r) ==
  Return(Enter([r EXCEPT !.w = Error(r.w, "state_mismatch err", StatusUnauthorized)], "StateMismatch"))

\* lines 170-174
StateMismatch(r) ==
  Return(Enter([r EXCEPT !.w = Redirect(r.w, Home, StatusUnauthorized)], "StateMismatch"))

\* mutant of Exchange: the state cookie is cleared once it has matched
Exchange_clearCookie(r) ==
  StartCall(Enter([r EXCEPT !.w = SetCookie(r.w, NewCookie(stateCookieName, <<>>))],
                  "Exchanging"), "exchange")

\* lines 177-182: the token exchange is called
Exchange(r) == StartCall(Enter(r, "Exchanging"), "exchange")

\* lines 159-182: the cookie is read and compared with the query state
CheckState(r) ==
  LET c == Cookie(r, stateCookieName) IN
    IF c.err # "" THEN CookieError(r, c.err)
    ELSE IF ~StateMatches(FormValueState(r), c.cookie.value) THEN StateMismatch(r)
    ELSE Exchange(r)

\* mutant of ProviderDenied: the return of line 155 is missing
ProviderDenied_noReturn(r) ==
  CheckState(Enter([r EXCEPT !.w = Redirect(r.w, Home, StatusTemporaryRedirect)], "ProviderDenied"))

\* lines 152-156: the provider reported an error
ProviderDenied(r) ==
  Return(Enter([r EXCEPT !.w = Redirect(r.w, Home, StatusTemporaryRedirect)], "ProviderDenied"))

\* lines 149-182: the handler up to its first call to the provider
ServeCallback(r0) ==
  LET r == Enter(r0, "Start") IN
  IF r.error # "" THEN ProviderDenied(r) ELSE CheckState(r)

\* mutant of TracksParams: a limit above the provider's maximum
TracksParams_overLimit == [limit |-> 100, offset |-> 0, market |-> "us"]

\* lines 218-221
TracksParams == [limit |-> 50, offset |-> 0, market |-> "us"]

\* mutant of AfterExchange: the two fetches are issued together
AfterExchange_parallel(r, res) ==
  IF res # "ok"
  THEN Return(Enter([r EXCEPT !.w = Error(r.w, res, StatusBadRequest)], "ExchangeFailed"))
  ELSE StartCall(StartCall(Enter(r, "Exchanged"), "profile"), "tracks")

\* mutant of AfterExchange: the status of the commented line 187
AfterExchange_internalError(r, res) ==
  IF res # "ok"
  THEN Return(Enter([r EXCEPT !.w = Error(r.w, res, 500)], "ExchangeFailed"))
  ELSE StartCall(Enter(r, "Exchanged"), "profile")

\* lines 184-208: the exchange has returned
AfterExchange(r, res) ==
  IF res # "ok"
  THEN Return(Enter([r EXCEPT !.w = Error(r.w, res, StatusBadRequest)], "ExchangeFailed"))
  ELSE StartCall(Enter(r, "Exchanged"), "profile")

\* mutant of AfterProfile: the return of line 211 is missing
AfterProfile_noReturn(r, res) ==
  LET r1 == IF res # "ok"
            THEN Enter([r EXCEPT !.w = Error(r.w, res, StatusBadRequest)], "ProfileFetchFailed")
            ELSE Enter(r, "ProfileFetched")
  IN StartCall([r1 EXCEPT !.params = Append(@, TracksParams)], "tracks")

\* lines 209-222: the profile fetch has returned
AfterProfile(r, res) ==
  IF res # "ok"
  THEN Return(Enter([r EXCEPT !.w = Error(r.w, res, StatusBadRequest)], "ProfileFetchFailed"))
  ELSE StartCall([Enter(r, "ProfileFetched") EXCEPT !.params = Append(@, TracksParams)], "tracks")

\* mutant of AfterTracks: the return of line 225 is missing
AfterTracks_noReturn(r, res) ==
  LET r1 == IF res # "ok"
            THEN Enter([r EXCEPT !.w = Error(r.w, res, StatusBadRequest)], "TracksFetchFailed")
            ELSE r
  IN Return(Enter(r1, "TracksFetched"))

\* mutant of AfterTracks: the page is written to the response
AfterTracks_writesPage(r, res) ==
  IF res # "ok"
  THEN Return(Enter([r EXCEPT !.w = Error(r.w, res, StatusBadRequest)], "TracksFetchFailed"))
  ELSE Return(Enter([r EXCEPT !.w = Write(r.w, "tracks")], "TracksFetched"))

\* lines 223-235: the saved-tracks fetch has returned
AfterTracks(r, res) ==
  IF res # "ok"
  THEN Return(Enter([r EXCEPT !.w = Error(r.w, res, StatusBadRequest)], "TracksFetchFailed"))
  ELSE Return(Enter(r, "TracksFetched"))

\* mutant of ServeLogout: the header is written before Location is set
ServeLogout_headerFirst(r) ==
  Return([r EXCEPT !.w = SetLocation(WriteHeader(r.w, StatusTemporaryRedirect), Home)])

\* ------------------------------------------- GET /logout/{provider}
ServeLogout(r) == Return([r EXCEPT !.w = WriteHeader(SetLocation(r.w, Home), StatusTemporaryRedirect)])


\* ------------------------------------------------------------------ inputs
\* a state no /auth issued
WrongState == << "W", "R", "O", "N", "G" >>
\* a cookie a client makes up: the name with an empty value
EmptyCookie == NewCookie(stateCookieName, <<>>)
CookieSources == {"jar", "forged"}
Other(b) == CHOOSE o \in Browsers : o # b

\* the raw state query parameters a callback request of browser b may carry:
\* none, an unissued one, the echo of its consent URL, that state left
\* unescaped, an earlier state of the browser, the state of another browser
RawStates(b) ==
  { <<>>, WrongState, consent[b], QueryUnescape(consent[b]),
    QueryEscape(old[b]), consent[Other(b)] }

\* ------------------------------------------------------------------- Init
Init ==
  /\ env \in [file : ConfigFiles, portFree : BOOLEAN]
  /\ proc = "new"
  /\ server = [cfg |-> NilCfg, client |-> NilClient]
  /\ jar = [b \in Browsers |-> NoCookie]
  /\ consent = [b \in Browsers |-> <<>>]
  /\ old = [b \in Browsers |-> <<>>]
  /\ used = [b \in Browsers |-> FALSE]
  /\ req = [b \in Browsers |-> NoRequest]

\* ---------------------------------------------------------------- startup
\* mutant of NewServer: initClient does not test the ok of the map lookup
NewServer_noProviderCheck(file) ==
  /\ proc = "new"
  /\ file = env.file
  /\ LET cfg == LoadTOMLFile(file) IN
       IF ~cfg.loaded
       THEN /\ proc' = "exited"
            /\ UNCHANGED server
       ELSE /\ proc' = "constructed"
            /\ server' = [cfg |-> cfg,
                          client |-> IF "spotify" \in cfg.providers
                                     THEN NewClient("client-id", "client-secret", "/auth/callback")
                                     ELSE NewClient("", "", "")]
  /\ UNCHANGED << env, jar, consent, old, used, req >>

\* NewServer(fileName): initCfg, initClient, routes
NewServer(file) ==
  /\ proc = "new"
  /\ file = env.file
  /\ LET cfg == LoadTOMLFile(file) IN
       IF ~cfg.loaded
       THEN /\ proc' = "exited"                   \* log.Fatal, line 69
            /\ UNCHANGED server
       ELSE IF "spotify" \notin cfg.providers
       THEN /\ proc' = "panicked"                 \* panic, line 79
            /\ server' = [server EXCEPT !.cfg = cfg]
       ELSE /\ proc' = "constructed"
            /\ server' = [cfg |-> cfg,
                          client |-> NewClient("client-id", "client-secret", "/auth/callback")]
  /\ UNCHANGED << env, jar, consent, old, used, req >>

\* Server.Start: ListenAndServe serves until it fails; a failed bind is fatal
Start(bound) ==
  /\ proc = "constructed"
  /\ bound = env.portFree
  /\ proc' = IF bound THEN "serving" ELSE "exited"
  /\ UNCHANGED << env, server, jar, consent, old, used, req >>

\* ---------------------------------------------------------------- requests
Auth(b, bytes) ==
  /\ proc = "serving"
  /\ req[b].kind = "none"
  /\ req' = [req EXCEPT ![b] =
       ServeAuth(server, [NoRequest EXCEPT !.kind = "auth", !.cookie = jar[b]], bytes)]
  /\ UNCHANGED << env, proc, server, jar, consent, old, used >>

AuthCallback(b, src, raw, err, code) ==
  /\ proc = "serving"
  /\ req[b].kind = "none"
  /\ req' = [req EXCEPT ![b] =
       ServeCallback([NoRequest EXCEPT !.kind = "callback",
                        !.cookie = IF src = "jar" THEN jar[b] ELSE EmptyCookie,
                        !.cookieSrc = src, !.rawState = raw,
                        !.error = err, !.code = code])]
  /\ UNCHANGED << env, proc, server, jar, consent, old, used >>

ExchangeReturn(b, res) ==
  /\ "exchange" \in req[b].inflight
  /\ req' = [req EXCEPT ![b] = AfterExchange(EndCall(req[b], "exchange", res), res)]
  /\ UNCHANGED << env, proc, server, jar, consent, old, used >>

ProfileReturn(b, res) ==
  /\ "profile" \in req[b].inflight
  /\ req' = [req EXCEPT ![b] = AfterProfile(EndCall(req[b], "profile", res), res)]
  /\ UNCHANGED << env, proc, server, jar, consent, old, used >>

TracksReturn(b, res) ==
  /\ "tracks" \in req[b].inflight
  /\ req' = [req EXCEPT ![b] = AfterTracks(EndCall(req[b], "tracks", res), res)]
  /\ UNCHANGED << env, proc, server, jar, consent, old, used >>

Logout(b, provider) ==
  /\ proc = "serving"
  /\ req[b].kind = "none"
  /\ req' = [req EXCEPT ![b] =
       ServeLogout([NoRequest EXCEPT !.kind = "logout", !.cookie = jar[b],
                      !.provider = provider])]
  /\ UNCHANGED << env, proc, server, jar, consent, old, used >>

\* ---------------------------------------------------------------- browsers
\* the browser takes the response: it stores a cookie the response sets and
\* follows the redirect of /auth to the consent page; remember says whether the
\* state of the /auth before this one is the earlier state kept in old
Receive(b, remember) ==
  /\ req[b].finished
  /\ jar' = [jar EXCEPT ![b] = IF req[b].w.cookie.present THEN req[b].w.cookie ELSE @]
  /\ consent' = [consent EXCEPT ![b] = IF req[b].kind = "auth" THEN req[b].w.location.state ELSE @]
  /\ old' = [old EXCEPT ![b] =
               IF req[b].kind = "auth" /\ consent[b] # <<>> /\ remember
               THEN QueryUnescape(consent[b]) ELSE @]
  /\ used' = [used EXCEPT ![b] =
                IF req[b].w.cookie.present THEN FALSE
                ELSE IF req[b].kind = "callback" /\ req[b].cookie = jar[b]
                        /\ req[b].calls["exchange"] > 0
                THEN TRUE ELSE @]
  /\ req' = [req EXCEPT ![b] = NoRequest]
  /\ UNCHANGED << env, proc, server >>

\* the cookie's max-age passes
ExpireCookie(b) ==
  /\ jar[b].present
  /\ jar' = [jar EXCEPT ![b] = NoCookie]
  /\ used' = [used EXCEPT ![b] = FALSE]
  /\ UNCHANGED << env, proc, server, consent, old, req >>

Results == {"ok"} \cup ProviderErrors

\* ---------------------------------------------------------- specifications
\* Spec: one browser sends every kind of request with every input
Solo == {"b1"}

Next ==
  \/ \E file \in ConfigFiles : NewServer(file)
  \/ \E bound \in BOOLEAN : Start(bound)
  \/ \E b \in Solo, bytes \in RandBytes : Auth(b, bytes)
  \/ \E b \in Solo : \E src \in CookieSources, raw \in RawStates(b),
        err \in ErrorParams, code \in Codes : AuthCallback(b, src, raw, err, code)
  \/ \E b \in Solo, res \in Results : ExchangeReturn(b, res)
  \/ \E b \in Solo, res \in Results : ProfileReturn(b, res)
  \/ \E b \in Solo, res \in Results : TracksReturn(b, res)
  \/ \E b \in Solo, provider \in LogoutProviders : Logout(b, provider)
  \/ \E b \in Solo, remember \in BOOLEAN : Receive(b, remember)
  \/ \E b \in Solo : ExpireCookie(b)

Spec == Init /\ [][Next]_vars

\* LiveSpec: Spec where every call to the provider returns
ProviderReturns(b) ==
  \E res \in Results : ExchangeReturn(b, res) \/ ProfileReturn(b, res) \/ TracksReturn(b, res)

LiveSpec == Init /\ [][Next]_vars /\ \A b \in Solo : WF_vars(ProviderReturns(b))

\* ConcSpec: the requests of two browsers interleave; each browser sends its
\* own cookie and echoes its own consent URL or that of the other browser
ConcRawStates(b) == { consent[b], consent[Other(b)] }

ConcNext ==
  \/ \E file \in ConfigFiles : NewServer(file)
  \/ \E bound \in BOOLEAN : Start(bound)
  \/ \E b \in Browsers, bytes \in RandBytes : Auth(b, bytes)
  \/ \E b \in Browsers : \E raw \in ConcRawStates(b), err \in ErrorParams :
        AuthCallback(b, "jar", raw, err, "XYZ")
  \/ \E b \in Browsers, res \in Results : ExchangeReturn(b, res)
  \/ \E b \in Browsers, res \in Results : ProfileReturn(b, res)
  \/ \E b \in Browsers, res \in Results : TracksReturn(b, res)
  \/ \E b \in Browsers : Logout(b, "spotify")
  \/ \E b \in Browsers : Receive(b, FALSE)
  \/ \E b \in Browsers : ExpireCookie(b)

ConcSpec == Init /\ [][ConcNext]_vars


\* ================================================================== claims
CallbackOf(b) == req[b].kind = "callback"
NoCalls(r) == \A c \in Calls : r.calls[c] = 0
SeqHas(q, x) == \E i \in 1..Len(q) : q[i] = x

\* C1: a callback whose query state differs from the value of the oauthState
\* cookie it carries, with an empty error parameter, ends in StateMismatch and
\* calls neither the token exchange nor the profile nor the saved-tracks fetch
C1_MismatchNoCalls ==
  \A b \in Browsers :
    (CallbackOf(b) /\ req[b].error = "" /\ req[b].cookie.present
       /\ FormValueState(req[b]) # req[b].cookie.value)
    => (req[b].finished /\ req[b].hstate = "StateMismatch"
          /\ ~SeqHas(req[b].hist, "Exchanging") /\ NoCalls(req[b]))

\* a callback carrying the cookie of the browser and a state of the same length
\* that differs from it has ended in StateMismatch
C1_Witness ==
  \E b \in Browsers :
    /\ CallbackOf(b) /\ req[b].error = "" /\ req[b].cookieSrc = "jar"
    /\ req[b].cookie.present /\ req[b].cookie.value # <<>>
    /\ FormValueState(req[b]) # req[b].cookie.value
    /\ Len(FormValueState(req[b])) = Len(req[b].cookie.value)
    /\ req[b].hstate = "StateMismatch"

\* C2: a callback with a non-empty error parameter redirects to "/" and calls
\* neither the token exchange nor the profile nor the saved-tracks fetch,
\* whatever its code, state and cookie are
C2_DeniedNoCalls ==
  \A b \in Browsers :
    (CallbackOf(b) /\ req[b].error # "")
    => (req[b].finished /\ req[b].hstate = "ProviderDenied"
          /\ req[b].w.location = Home /\ req[b].w.status = StatusTemporaryRedirect
          /\ NoCalls(req[b]))

\* a denied callback that carries a code and a state matching its cookie
C2_Witness ==
  \E b \in Browsers :
    /\ CallbackOf(b) /\ req[b].error # "" /\ req[b].code # ""
    /\ req[b].cookie.present /\ req[b].cookie.value # <<>>
    /\ FormValueState(req[b]) = req[b].cookie.value
    /\ req[b].finished /\ req[b].w.location = Home

\* C3: a callback without an oauthState cookie and with an empty error
\* parameter ends in StateMissing and never reaches Exchanging, also when its
\* state parameter is a state /auth issued
C3_MissingCookie ==
  \A b \in Browsers :
    (CallbackOf(b) /\ req[b].error = "" /\ ~req[b].cookie.present)
    => (req[b].finished /\ req[b].hstate = "StateMissing"
          /\ ~SeqHas(req[b].hist, "Exchanging") /\ NoCalls(req[b]))

\* the cookie has expired and the callback echoes the state of the consent URL
C3_Witness ==
  \E b \in Browsers :
    /\ CallbackOf(b) /\ req[b].error = "" /\ ~req[b].cookie.present
    /\ consent[b] # <<>> /\ req[b].rawState = consent[b]
    /\ FormValueState(req[b]) \in States
    /\ req[b].hstate = "StateMissing"


\* C4: within one callback the provider calls are sequential and gated: the
\* profile fetch is called only after the exchange has returned successfully,
\* the saved-tracks fetch only after the profile fetch has returned
\* successfully, and no two calls are in flight together
C4_SequentialCalls ==
  \A b \in Browsers :
    CallbackOf(b) =>
      /\ Cardinality(req[b].inflight) <= 1
      /\ req[b].calls["profile"] > 0 =>
           (req[b].results["exchange"] = "ok" /\ "exchange" \notin req[b].inflight)
      /\ req[b].calls["tracks"] > 0 =>
           (req[b].results["profile"] = "ok" /\ "profile" \notin req[b].inflight
              /\ req[b].results["exchange"] = "ok")

\* the saved-tracks fetch is in flight
C4_Witness ==
  \E b \in Browsers : CallbackOf(b) /\ req[b].inflight = {"tracks"}

HappyPath == << "Start", "Exchanging", "Exchanged", "ProfileFetched", "TracksFetched" >>
IsPrefix(p, q) == Len(p) <= Len(q) /\ SubSeq(q, 1, Len(p)) = p

\* the callback of browser b carries the cookie the browser stored from /auth,
\* no error, a code and the state of the consent URL as the provider echoes it
EchoedCallback(b) ==
  /\ CallbackOf(b) /\ req[b].cookieSrc = "jar" /\ req[b].cookie.present
  /\ req[b].error = "" /\ req[b].code # ""
  /\ consent[b] # <<>> /\ req[b].rawState = consent[b]

\* C5: a callback that follows /auth with the stored cookie and the echoed
\* state, and whose provider calls all succeed, passes through Exchanging,
\* Exchanged and ProfileFetched in that order and ends in TracksFetched
C5_HappyPath ==
  \A b \in Browsers :
    (EchoedCallback(b) /\ \A c \in Calls : req[b].results[c] \in {"", "ok"})
    => /\ IsPrefix(req[b].hist, HappyPath)
       /\ Len(req[b].hist) >= 2
       /\ req[b].finished => (req[b].hstate = "TracksFetched" /\ req[b].hist = HappyPath)
       /\ ~req[b].finished => req[b].inflight # {}

\* such a callback, with a state that holds a '+', has ended in TracksFetched
C5_Witness ==
  \E b \in Browsers :
    /\ EchoedCallback(b) /\ SeqHas(req[b].cookie.value, "+")
    /\ req[b].finished /\ req[b].hstate = "TracksFetched"

\* C6: every /auth request, with or without an oauthState cookie, sets the
\* oauthState cookie to a generated state and answers 307 with the consent URL
\* that embeds the same state
C6_AuthCookieMatchesURL ==
  \A b \in Browsers :
    req[b].kind = "auth" =>
      /\ req[b].finished
      /\ req[b].w.status = StatusTemporaryRedirect
      /\ req[b].w.cookie.present /\ req[b].w.cookie.name = stateCookieName
      /\ req[b].w.cookie.value \in States
      /\ req[b].w.location.base = AuthEndpoint
      /\ QueryUnescape(req[b].w.location.state) = req[b].w.cookie.value
      /\ NoCalls(req[b])

\* an /auth request that carried a cookie got a different state with a '/'
C6_Witness ==
  \E b \in Browsers :
    /\ req[b].kind = "auth" /\ req[b].cookie.present
    /\ req[b].w.cookie.value # req[b].cookie.value
    /\ SeqHas(req[b].w.cookie.value, "/")
    /\ QueryUnescape(req[b].w.location.state) = req[b].w.cookie.value


\* C7: the cookie jar of a browser holds only the state of its most recent
\* /auth, and a callback that presents the state of an earlier /auth, other
\* than the latest, ends in StateMismatch and never reaches Exchanging
C7_OnePendingLogin ==
  \A b \in Browsers :
    /\ jar[b].present =>
         (consent[b] # <<>> /\ jar[b].value = QueryUnescape(consent[b]))
    /\ (CallbackOf(b) /\ req[b].cookieSrc = "jar" /\ req[b].cookie.present
          /\ req[b].error = "" /\ old[b] # <<>>
          /\ req[b].rawState = QueryEscape(old[b])
          /\ old[b] # QueryUnescape(consent[b]))
       => (req[b].finished /\ req[b].hstate = "StateMismatch"
             /\ ~SeqHas(req[b].hist, "Exchanging") /\ NoCalls(req[b]))

\* after two /auth requests a callback presents the state of the earlier one
C7_Witness ==
  \E b \in Browsers :
    /\ CallbackOf(b) /\ req[b].cookieSrc = "jar" /\ req[b].cookie.present
    /\ req[b].error = "" /\ old[b] \in States
    /\ FormValueState(req[b]) = old[b]
    /\ req[b].cookie.value = QueryUnescape(consent[b])
    /\ old[b] # req[b].cookie.value
    /\ req[b].hstate = "StateMismatch"

EarlyTerminal == {"ProviderDenied", "StateMismatch", "StateMissing"}

\* C8 as stated: in ProviderDenied, StateMismatch and StateMissing the callback
\* responds with status 307 and a redirect to "/"
C8_Original ==
  \A b \in Browsers :
    (CallbackOf(b) /\ req[b].hstate \in EarlyTerminal)
    => (req[b].w.status = StatusTemporaryRedirect /\ req[b].w.location = Home)

\* C8 amended: in ProviderDenied, StateMismatch and StateMissing the callback
\* responds with Location "/"; the status is 307 in ProviderDenied and 401 in
\* StateMismatch and StateMissing
C8_Amended ==
  \A b \in Browsers :
    (CallbackOf(b) /\ req[b].hstate \in EarlyTerminal)
    => /\ req[b].finished
       /\ req[b].w.location = Home
       /\ req[b].w.status = IF req[b].hstate = "ProviderDenied"
                            THEN StatusTemporaryRedirect ELSE StatusUnauthorized

\* a callback has ended in StateMismatch with status 401 and Location "/"
C8_Witness ==
  \E b \in Browsers :
    /\ CallbackOf(b) /\ req[b].hstate = "StateMismatch"
    /\ req[b].w.status = StatusUnauthorized /\ req[b].w.location = Home

CallOrder == << "exchange", "profile", "tracks" >>
FailedState == [exchange |-> "ExchangeFailed", profile |-> "ProfileFetchFailed",
                tracks |-> "TracksFetchFailed"]

\* C9: when the exchange, the profile fetch or the saved-tracks fetch returns
\* an error, the callback ends in ExchangeFailed, ProfileFetchFailed or
\* TracksFetchFailed, answers 400 with that error's message, makes no later
\* provider call and does not repeat the failed one
C9_FailureEndsRequest ==
  \A b \in Browsers : \A i \in 1..3 :
    (CallbackOf(b) /\ req[b].results[CallOrder[i]] \in ProviderErrors)
    => /\ req[b].finished /\ req[b].inflight = {}
       /\ req[b].hstate = FailedState[CallOrder[i]]
       /\ req[b].w.status = StatusBadRequest
       /\ req[b].w.body = << req[b].results[CallOrder[i]] >>
       /\ \A j \in 1..3 : req[b].calls[CallOrder[j]] = IF j <= i THEN 1 ELSE 0

\* the profile fetch has failed after a successful exchange
C9_Witness ==
  \E b \in Browsers :
    /\ CallbackOf(b) /\ req[b].results["exchange"] = "ok"
    /\ req[b].results["profile"] = "timeout"
    /\ req[b].hstate = "ProfileFetchFailed" /\ req[b].w.body = << "timeout" >>


\* the position and the response of a callback as its own error parameter,
\* cookie, state parameter and provider results determine them
ExpectedState(r) ==
  IF r.error # "" THEN "ProviderDenied"
  ELSE IF ~(r.cookie.present /\ r.cookie.name = stateCookieName) THEN "StateMissing"
  ELSE IF QueryUnescape(r.rawState) # r.cookie.value THEN "StateMismatch"
  ELSE IF r.results["exchange"] = "" THEN "Exchanging"
  ELSE IF r.results["exchange"] # "ok" THEN "ExchangeFailed"
  ELSE IF r.results["profile"] = "" THEN "Exchanged"
  ELSE IF r.results["profile"] # "ok" THEN "ProfileFetchFailed"
  ELSE IF r.results["tracks"] = "" THEN "ProfileFetched"
  ELSE IF r.results["tracks"] # "ok" THEN "TracksFetchFailed"
  ELSE "TracksFetched"

ExpectedResponse(r) ==
  LET st == ExpectedState(r)
      failed == { c \in Calls : r.results[c] \in ProviderErrors }
  IN CASE st = "ProviderDenied" -> Redirect(NewResponse, Home, StatusTemporaryRedirect)
       [] st = "StateMissing" ->
            Error(Redirect(NewResponse, Home, StatusUnauthorized), ErrNoCookie, StatusBadRequest)
       [] st = "StateMismatch" -> Redirect(NewResponse, Home, StatusUnauthorized)
       [] st \in {"ExchangeFailed", "ProfileFetchFailed", "TracksFetchFailed"} ->
            Error(NewResponse, r.results[CHOOSE c \in failed : TRUE], StatusBadRequest)
       [] OTHER -> NewResponse

OwnOutcome ==
  \A b \in Browsers :
    CallbackOf(b) =>
      /\ req[b].hstate = ExpectedState(req[b])
      /\ req[b].w = ExpectedResponse(req[b])

\* C10: requests served concurrently share no mutable server state: the state
\* and response of a callback are determined by its own cookie, query
\* parameters and provider results under every interleaving with the requests
\* of other browsers, and no handler changes the Server's cfg or client
C10_NoSharedState ==
  /\ []OwnOutcome
  /\ [][proc # "new" => server' = server]_vars

\* two callbacks are served together: one of a browser that presents the state
\* of the other browser, one that has passed the state check
C10_Witness ==
  \E b \in Browsers :
    /\ CallbackOf(b) /\ CallbackOf(Other(b))
    /\ req[b].cookie.present /\ req[Other(b)].cookie.present
    /\ req[b].cookie.value # req[Other(b)].cookie.value
    /\ req[b].rawState = QueryEscape(req[Other(b)].cookie.value)
    /\ req[b].hstate = "StateMismatch"
    /\ req[Other(b)].inflight = {"profile"}


Failures == {"ProviderDenied", "StateMissing", "StateMismatch",
             "ExchangeFailed", "ProfileFetchFailed", "TracksFetchFailed"}

\* C11: every failure of the callback (ProviderDenied, StateMissing,
\* StateMismatch, ExchangeFailed, ProfileFetchFailed, TracksFetchFailed) answers
\* with a redirect to "/" or a 4xx status, never 2xx or 5xx, and the process
\* keeps serving
C11_FailuresAreClientErrors ==
  \A b \in Browsers :
    (CallbackOf(b) /\ req[b].hstate \in Failures)
    => /\ req[b].finished
       /\ \/ (req[b].w.status \in 300..399 /\ req[b].w.location = Home)
          \/ req[b].w.status \in 400..499
       /\ proc = "serving"

\* the exchange has failed and the callback has answered 400
C11_Witness ==
  \E b \in Browsers :
    /\ CallbackOf(b) /\ req[b].hstate = "ExchangeFailed"
    /\ req[b].w.status = StatusBadRequest /\ proc = "serving"

\* C12: every /logout/{provider} request, whatever the provider segment, is
\* answered with status 307 and Location "/" and calls the provider not at all
C12_LogoutRedirectsHome ==
  \A b \in Browsers :
    req[b].kind = "logout" =>
      /\ req[b].finished
      /\ req[b].w.status = StatusTemporaryRedirect
      /\ req[b].w.location = Home
      /\ NoCalls(req[b]) /\ req[b].inflight = {}

\* a logout for a provider other than spotify has been answered
C12_Witness ==
  \E b \in Browsers :
    /\ req[b].kind = "logout" /\ req[b].provider = "other"
    /\ req[b].w.status = StatusTemporaryRedirect /\ req[b].w.location = Home

Terminated == {"exited", "panicked"}
StartupFailed == env.file # "complete" \/ ~env.portFree

URLSafeChars ==
  ({ encodeStd[i] : i \in 1..64 } \ {"+", "/"}) \cup {"-", "_", "="}

\* C14: every state the generator returns is URL-safe: it holds no character
\* outside the URL-safe base64 alphabet, in particular no '+' and no '/'
C14_StateIsURLSafe ==
  \A b \in Browsers :
    req[b].kind = "auth" =>
      \A i \in 1..Len(req[b].w.cookie.value) : req[b].w.cookie.value[i] \in URLSafeChars

\* C15: a callback performs at most one response-writing action; without a
\* cookie it performs only the unauthorized redirect to "/" and does not also
\* write the bad-request error response
C15_OneResponseWrite ==
  \A b \in Browsers :
    CallbackOf(b) =>
      /\ req[b].w.writeHeaderCalls <= 1
      /\ Len(req[b].w.body) <= 1
      /\ req[b].hstate = "StateMissing" => req[b].w.body = << RedirectBody >>


TerminalStates == Failures \cup {"TracksFetched"}
Transitions ==
  { << "Start", "ProviderDenied" >>, << "Start", "StateMissing" >>,
    << "Start", "StateMismatch" >>, << "Start", "Exchanging" >>,
    << "Exchanging", "ExchangeFailed" >>, << "Exchanging", "Exchanged" >>,
    << "Exchanged", "ProfileFetchFailed" >>, << "Exchanged", "ProfileFetched" >>,
    << "ProfileFetched", "TracksFetchFailed" >>, << "ProfileFetched", "TracksFetched" >> }

StateMachineFollowed ==
  \A b \in Browsers :
    CallbackOf(b) =>
      /\ req[b].hist # <<>> /\ req[b].hist[1] = "Start"
      /\ req[b].hstate = req[b].hist[Len(req[b].hist)]
      /\ \A i \in 1..(Len(req[b].hist) - 1) :
           << req[b].hist[i], req[b].hist[i + 1] >> \in Transitions
      /\ req[b].finished <=> req[b].hstate \in TerminalStates
      /\ req[b].finished => req[b].inflight = {}
      /\ SeqHas(req[b].hist, "Exchanging") =>
           (req[b].error = "" /\ req[b].cookie.present
              /\ FormValueState(req[b]) = req[b].cookie.value)

\* C16: every callback reaches exactly one of the seven terminal states and
\* does nothing after it, provided the provider calls return; the handler takes
\* only the transitions of the state machine, and enters Exchanging only from
\* Start with an empty error, a cookie and a matching state
C16_StateMachine ==
  /\ []StateMachineFollowed
  /\ [][\A b \in Browsers :
          (CallbackOf(b) /\ req[b].finished) => (req'[b] = req[b] \/ req'[b] = NoRequest)]_vars
  /\ \A b \in Browsers : (CallbackOf(b) ~> (CallbackOf(b) /\ req[b].finished))

\* a callback has ended in TracksFetchFailed after two successful calls
C16_Witness ==
  \E b \in Browsers :
    /\ CallbackOf(b) /\ req[b].finished
    /\ req[b].hist = << "Start", "Exchanging", "Exchanged", "ProfileFetched", "TracksFetchFailed" >>

\* C17: whenever the callback calls the saved-tracks fetch, the query it passes
\* is limit=50, offset=0, market="us", whatever the request holds, so the limit
\* is within 1..50 and the offset is not negative
C17_TracksQueryFixed ==
  \A b \in Browsers :
    CallbackOf(b) =>
      /\ Len(req[b].params) = req[b].calls["tracks"]
      /\ \A i \in 1..Len(req[b].params) :
           /\ req[b].params[i] = [limit |-> 50, offset |-> 0, market |-> "us"]
           /\ req[b].params[i].limit \in 1..50
           /\ req[b].params[i].offset >= 0

\* the saved-tracks fetch has been called for a request with a code
C17_Witness ==
  \E b \in Browsers :
    /\ CallbackOf(b) /\ req[b].calls["tracks"] = 1 /\ req[b].code = "XYZ"
    /\ req[b].params = << [limit |-> 50, offset |-> 0, market |-> "us"] >>

\* C18: on the success path the handler writes nothing to the response: no
\* status, no redirect, no header, no body
C18_SuccessWritesNothing ==
  \A b \in Browsers :
    (CallbackOf(b) /\ req[b].hstate = "TracksFetched") => req[b].w = NewResponse

\* a callback has ended in TracksFetched
C18_Witness ==
  \E b \in Browsers :
    /\ CallbackOf(b) /\ req[b].finished /\ req[b].hstate = "TracksFetched"
    /\ req[b].results["tracks"] = "ok" /\ req[b].w.status = 0


\* C19: only /auth writes the state cookie: the responses of the callback and
\* of logout set no cookie, the cookie a browser stores changes only when it
\* takes the response of an /auth or when the cookie expires, and a callback
\* that carries the stored cookie and its state a second time reaches the
\* exchange again
C19_CookieNeverCleared ==
  /\ [](\A b \in Browsers :
          /\ req[b].kind \in {"callback", "logout"} => ~req[b].w.cookie.present
          /\ (used[b] /\ CallbackOf(b) /\ req[b].cookieSrc = "jar" /\ req[b].error = ""
                /\ req[b].cookie.present /\ FormValueState(req[b]) = req[b].cookie.value)
               => req[b].calls["exchange"] = 1)
  /\ [][\A b \in Browsers :
          jar'[b] # jar[b] =>
            \/ req[b].kind = "auth" /\ req[b].finished /\ jar'[b] = req[b].w.cookie
            \/ jar'[b] = NoCookie /\ req'[b] = req[b]]_vars

\* a second callback with the cookie and the state of an earlier callback that
\* reached the exchange is exchanging in its turn
C19_Witness ==
  \E b \in Browsers :
    /\ used[b] /\ CallbackOf(b) /\ req[b].cookieSrc = "jar"
    /\ req[b].cookie.present /\ req[b].cookie = jar[b]
    /\ FormValueState(req[b]) = req[b].cookie.value
    /\ req[b].hstate = "Exchanging"

\* C20: the exchange is never attempted for a callback whose state query
\* parameter is empty or absent, whatever cookie the request carries
C20_NoExchangeOnEmptyState ==
  \A b \in Browsers :
    (CallbackOf(b) /\ FormValueState(req[b]) = <<>>) => req[b].calls["exchange"] = 0

====
